---- MODULE Spec2Model ----
(***************************************************************************)
(* A model of AGIE, the AI Governance Intelligence Engine:                 *)
(*   - CSVParser            (src/src/parsers/csv_parser.py)                *)
(*   - RateLimiter, GeminiClient (src/src/analyser/gemini_client.py)       *)
(*   - ClaudeClient         (src/src/analyser/claude_client.py)            *)
(*   - mock ClaudeClient    (src/src/analyser/mock_claude_client.py)       *)
(*   - Riskanalyser         (src/src/analyser/risk_analyser.py)            *)
(*   - the analyse command  (src/src/agie.py)                              *)
(*                                                                         *)
(* Four specifications share the variables:                                *)
(*   SpecParse   : CSVParser.parse and get_summary on a bounded family of  *)
(*                 registers;                                              *)
(*   SpecLimiter : RateLimiter.acquire driven by one caller with idle gaps;*)
(*   SpecClient  : GeminiClient.analyze_use_case, the retry loop;          *)
(*   Spec        : the analyse command, from the CLI down to the backend.  *)
(***************************************************************************)
EXTENDS Integers, Sequences, FiniteSets, TLC

VARIABLES
    \* ---- CSVParser ----
    file,        \* the register handed to parse, as pandas would load it
    ppc,         \* "start" | "parsed" | "summarised"
    parsed,      \* what parse() produced: a table or a CSVParserError
    summary,     \* what get_summary() produced
    \* ---- RateLimiter ----
    now,         \* the wall clock (datetime.now()), in ticks of half a second
    tokens,      \* RateLimiter.tokens, in units of 1/TokenUnit of a token
    last_refill, \* RateLimiter.last_refill
    lim,         \* bookkeeping of the acquire() calls made so far
    \* ---- analysis backend ----
    cl,          \* the client's call frame (position, attempt, counters, result)
    \* ---- Riskanalyser and the CLI ----
    run          \* the analyse command's frame (provider, position, outcome)

parserVars  == <<file, ppc, parsed, summary>>
limiterVars == <<now, tokens, last_refill, lim>>
vars        == <<file, ppc, parsed, summary, now, tokens, last_refill, lim, cl, run>>

(***************************************************************************)
(* Bounds of the model.                                                    *)
(***************************************************************************)
MaxRows   == 2   \* rows of a register
MaxStrLen == 2   \* characters of a text cell
MaxRating == 6   \* likelihood / impact cells range over 0..MaxRating

(***************************************************************************)
(* Cells.  A cell is missing (pandas NaN: the field was empty in the file) *)
(* or holds a value: a sequence of characters, or a number.                *)
(***************************************************************************)
NaNStr == [na |-> TRUE, v |-> <<>>]
NaNNum == [na |-> TRUE, v |-> 0]
Str(s) == [na |-> FALSE, v |-> s]
Num(n) == [na |-> FALSE, v |-> n]
isna(c) == c.na

Whitespace == {" ", "\n"}
Alphabet   == {" ", "a"}

RECURSIVE lstrip(_)
lstrip(s) ==
    IF s = <<>> THEN s
    ELSE IF Head(s) \in Whitespace THEN lstrip(Tail(s)) ELSE s

RECURSIVE rstrip(_)
rstrip(s) ==
    IF s = <<>> THEN s
    ELSE IF s[Len(s)] \in Whitespace THEN rstrip(SubSeq(s, 1, Len(s) - 1)) ELSE s

\* str.strip(): leading and trailing whitespace removed
strip(s) == rstrip(lstrip(s))

\* Series.str.strip(): a missing cell stays missing
str_strip(c) == IF isna(c) THEN c ELSE Str(strip(c.v))

(***************************************************************************)
(* RiskRegisterSchema                                                      *)
(***************************************************************************)
required_columns == {"risk_id", "risk_description", "likelihood", "impact"}
optional_columns == {"category", "owner", "mitigation", "status"}
valid_likelihood_values == {1, 2, 3, 4, 5}
valid_impact_values     == {1, 2, 3, 4, 5}
HighRiskThreshold == 15

\* the columns pandas loads with dtype object (text); likelihood and impact
\* are numeric in every register of the model
TextColumns == {"risk_id", "risk_description"} \cup optional_columns

(***************************************************************************)
(* The registers of the model.  A register is [exists, readable, columns,  *)
(* rows]; a row maps each column to a cell.                                *)
(***************************************************************************)
Texts == UNION {[1..n -> Alphabet] : n \in 1..MaxStrLen}
TextCells   == {NaNStr} \cup {Str(s) : s \in Texts}
RatingCells == {NaNNum} \cup {Num(n) : n \in 0..MaxRating}

GoodCell(col) ==
    CASE col = "likelihood" -> Num(3)
      [] col = "impact"     -> Num(5)
      [] OTHER              -> Str(<<"a">>)

GoodRow(cols) == [c \in cols |-> GoodCell(c)]

Row(id, desc, l, i) ==
    [c \in required_columns |->
        CASE c = "risk_id"          -> id
          [] c = "risk_description" -> desc
          [] c = "likelihood"       -> l
          [] c = "impact"           -> i]

Frame(cols, rows) ==
    [exists |-> TRUE, readable |-> TRUE, columns |-> cols, rows |-> rows]

\* one-row registers: each cell of the row ranges over its whole domain
OneRowFiles ==
    {Frame(required_columns, <<Row(id, Str(<<"a">>), Num(3), Num(5))>>) : id \in TextCells}
    \cup
    {Frame(required_columns, <<Row(Str(<<"a">>), d, Num(3), Num(5))>>) : d \in TextCells}
    \cup
    {Frame(required_columns, <<Row(Str(<<"a">>), Str(<<"a">>), l, i)>>) :
        l \in RatingCells, i \in RatingCells}

\* rows that registers of several rows are built from
RepRows ==
    { Row(Str(<<"a">>), Str(<<"a">>), Num(5), Num(4)),
      Row(Str(<<"a">>), Str(<<"a">>), Num(2), Num(2)),
      Row(Str(<<"a">>), Str(<<"a">>), Num(3), Num(5)),
      Row(Str(<<"a">>), Str(<<"a">>), Num(MaxRating), Num(1)),
      Row(Str(<<"a">>), Str(<<"a">>), Num(4), Num(0)),
      Row(Str(<<" ">>), Str(<<"a">>), Num(1), Num(1)),
      Row(Str(<<"a">>), NaNStr,       Num(2), Num(3)),
      Row(Str(<<"a", " ">>), Str(<<" ", "a">>), Num(5), Num(5)) }

ManyRowFiles ==
    UNION {{Frame(required_columns, rows) : rows \in [1..n -> RepRows]} : n \in 2..MaxRows}

\* every subset of the eight known columns, with no row or one well-formed row
ColumnFiles ==
    {Frame(cols, <<>>) : cols \in SUBSET (required_columns \cup optional_columns)}
    \cup
    {Frame(cols, <<GoodRow(cols)>>) : cols \in SUBSET (required_columns \cup optional_columns)}

MissingFile    == [exists |-> FALSE, readable |-> FALSE, columns |-> {}, rows |-> <<>>]
UnreadableFile == [exists |-> TRUE,  readable |-> FALSE, columns |-> {}, rows |-> <<>>]

Files == {MissingFile, UnreadableFile} \cup ColumnFiles \cup OneRowFiles \cup ManyRowFiles

(***************************************************************************)
(* CSVParser                                                               *)
(***************************************************************************)
NoFrame == [columns |-> {}, rows |-> <<>>]
CSVParserError(msg) == [ok |-> FALSE, error |-> "CSVParserError", msg |-> msg, df |-> NoFrame]
Returned(df)        == [ok |-> TRUE,  error |-> "none", msg |-> "", df |-> df]

\* variant: the last required column is left out of the check
MutMissingColumns(df) ==
    {col \in required_columns \ {"impact"} : col \notin df.columns}

\* _validate_schema: the required columns that the frame lacks
missing_columns(df) == {col \in required_columns : col \notin df.columns}

\* Series.isin(values): a missing cell is in no list of values
isin(c, values) == ~isna(c) /\ c.v \in values

\* _validate_data: the checks in the order of the code, the first that fails,
\* "" when all pass.  Each check indexes its column, df[col], which raises
\* KeyError on a column the frame lacks: the checks before it have run by
\* then.  (parse would not catch the KeyError; _validate_schema runs first,
\* so parse never gets there.)
validate_data(df) ==
    IF "risk_id" \notin df.columns
        THEN "KeyError"
    ELSE IF \E k \in 1..Len(df.rows) : isna(df.rows[k]["risk_id"])
        THEN "Found empty risk_id values"
    ELSE IF "risk_description" \notin df.columns
        THEN "KeyError"
    ELSE IF \E k \in 1..Len(df.rows) : isna(df.rows[k]["risk_description"])
        THEN "Found empty risk_description values"
    ELSE IF "likelihood" \notin df.columns
        THEN "KeyError"
    ELSE IF \E k \in 1..Len(df.rows) :
                ~isin(df.rows[k]["likelihood"], valid_likelihood_values)
        THEN "Invalid likelihood values found"
    ELSE IF "impact" \notin df.columns
        THEN "KeyError"
    ELSE IF \E k \in 1..Len(df.rows) :
                ~isin(df.rows[k]["impact"], valid_impact_values)
        THEN "Invalid impact values found"
    ELSE ""

\* variant: the score is the sum, not the product
MutNormalizeRow(row, cols) ==
    [c \in cols \cup {"risk_score"} |->
        IF c = "risk_score" THEN Num(row["likelihood"].v + row["impact"].v)
        ELSE IF c \in TextColumns THEN str_strip(row[c])
        ELSE Num(row[c].v)]

\* _normalize_data on one row: text cells stripped, likelihood and impact
\* as integers, risk_score appended
NormalizeRow(row, cols) ==
    [c \in cols \cup {"risk_score"} |->
        IF c = "risk_score" THEN Num(row["likelihood"].v * row["impact"].v)
        ELSE IF c \in TextColumns THEN str_strip(row[c])
        ELSE Num(row[c].v)]

normalize_data(df) ==
    [columns |-> df.columns \cup {"risk_score"},
     rows    |-> [k \in 1..Len(df.rows) |-> NormalizeRow(df.rows[k], df.columns)]]

RECURSIVE ValidRows(_)
ValidRows(rows) ==
    IF rows = <<>> THEN <<>>
    ELSE IF /\ isin(Head(rows)["likelihood"], valid_likelihood_values)
            /\ isin(Head(rows)["impact"], valid_impact_values)
        THEN <<Head(rows)>> \o ValidRows(Tail(rows))
        ELSE ValidRows(Tail(rows))

\* variant: rows with a rating out of range are dropped, the rest returned
MutParseFilter(f) ==
    IF ~f.exists THEN CSVParserError("File not found")
    ELSE IF ~f.readable THEN CSVParserError("Failed to read CSV file")
    ELSE IF missing_columns(f) # {} THEN CSVParserError("Missing required columns")
    ELSE LET kept == [columns |-> f.columns, rows |-> ValidRows(f.rows)]
         IN  IF validate_data(kept) # "" THEN CSVParserError(validate_data(kept))
             ELSE Returned(normalize_data(kept))

\* CSVParser.parse
parse_result(f) ==
    IF ~f.exists THEN CSVParserError("File not found")
    ELSE IF ~f.readable THEN CSVParserError("Failed to read CSV file")
    ELSE IF missing_columns(f) # {} THEN CSVParserError("Missing required columns")
    ELSE IF validate_data(f) = "KeyError"
        THEN [ok |-> FALSE, error |-> "KeyError", msg |-> "KeyError", df |-> NoFrame]
    ELSE IF validate_data(f) # "" THEN CSVParserError(validate_data(f))
    ELSE Returned(normalize_data(f))

RECURSIVE SumSeq(_)
SumSeq(s) == IF s = <<>> THEN 0 ELSE Head(s) + SumSeq(Tail(s))

\* Series.mean(): the sum over the count, kept as a fraction; den = 0 is NaN
mean(df, col) ==
    [num |-> SumSeq([k \in 1..Len(df.rows) |-> df.rows[k][col].v]), den |-> Len(df.rows)]

high_risk(df) == {k \in 1..Len(df.rows) : df.rows[k]["risk_score"].v >= HighRiskThreshold}

NoSummary ==
    [total_risks |-> 0, average_likelihood |-> [num |-> 0, den |-> 0],
     average_impact |-> [num |-> 0, den |-> 0],
     average_risk_score |-> [num |-> 0, den |-> 0],
     high_risk_count |-> 0, columns |-> {}]

\* CSVParser.get_summary
get_summary(df) ==
    [total_risks        |-> Len(df.rows),
     average_likelihood |-> mean(df, "likelihood"),
     average_impact     |-> mean(df, "impact"),
     average_risk_score |-> mean(df, "risk_score"),
     high_risk_count    |-> Cardinality(high_risk(df)),
     columns            |-> df.columns]

NotParsed == [ok |-> FALSE, error |-> "none", msg |-> "", df |-> NoFrame]

(***************************************************************************)
(* The clock.  One tick is half a second, the unit in which every sleep    *)
(* of the program is a whole number: the backoffs 2 ** attempt, the        *)
(* limiter's waits on the registers tried here, and the 1.5 s of the mock  *)
(* client.  Every duration below (time_window, wait_time, the differences  *)
(* of now) is in ticks; Seconds(n) is n seconds in ticks.                  *)
(***************************************************************************)
Seconds(n) == 2 * n

\* mock_claude_client.py line 109: time.sleep(1.5), in ticks
MockDelay == 3

(***************************************************************************)
(* RateLimiter.  tokens is kept in units of 1/time_window of a token, so   *)
(* that the proportional refill (time_passed / time_window) * max_requests *)
(* is exact: one token is TokenUnit units, and time_window is a multiple   *)
(* of max_requests, so the wait (1 - tokens) * (time_window / max_requests)*)
(* is a whole number of ticks.                                             *)
(***************************************************************************)
max_requests   == 2   \* RateLimiter.max_requests (15 in GeminiClient)
SecondsPerToken == 2  \* time_window / max_requests (4 s in GeminiClient)
time_window    == Seconds(max_requests * SecondsPerToken)
TokenUnit      == time_window

MaxClock == 16   \* the clock stops the model at this time, in ticks
MaxCalls == 6    \* acquire() calls recorded
MaxIdle  == 5    \* longest single idle gap between two calls, in ticks

\* RateLimiter.__init__
InitTokens == max_requests * TokenUnit

Min(a, b) == IF a <= b THEN a ELSE b

\* variant: the refill is not capped at max_requests
MutRefilled(tk, last, t) == tk + (t - last) * max_requests

\* acquire(), lines 104-109: the bucket after the proportional refill
Refilled(tk, last, t) ==
    Min(max_requests * TokenUnit, tk + (t - last) * max_requests)

\* variant: a blocked call sleeps one second whatever the deficit
MutWaitTime(tk) == IF tk < TokenUnit THEN 1 ELSE 0

\* acquire(), line 114: how long the call sleeps, 0 when a token is there
wait_time(tk) ==
    IF tk < TokenUnit
        THEN ((TokenUnit - tk) * time_window) \div (max_requests * TokenUnit)
        ELSE 0

\* acquire(), line 110: last_refill is the time read on entry, before any sleep
LastRefillAfter(t, waited) == t

\* variant: the token is deducted without the wait that makes it one
MutOverdraw(tk) == tk - TokenUnit

\* variant: a call that slept leaves the bucket as the refill left it
MutTokensAfter(tk) == IF tk < TokenUnit THEN tk ELSE tk - TokenUnit

\* acquire(), lines 113-120: the bucket when the call returns
TokensAfter(tk) == (IF tk < TokenUnit THEN TokenUnit ELSE tk) - TokenUnit

\* the whole of RateLimiter.acquire(), called at time `now`
AcquireStep ==
    LET refilled == Refilled(tokens, last_refill, now)
        waited   == wait_time(refilled)
    IN  /\ tokens'      = TokensAfter(refilled)
        /\ last_refill' = LastRefillAfter(now, waited)
        /\ now'         = now + waited
        /\ lim' = [calls    |-> lim.calls + 1,
                   slept    |-> waited,
                   refilled |-> refilled,
                   done     |-> IF Len(lim.done) < MaxCalls
                                    THEN Append(lim.done, now + waited)
                                    ELSE lim.done,
                   sleeps   |-> IF Len(lim.sleeps) < MaxCalls
                                    THEN Append(lim.sleeps, waited)
                                    ELSE lim.sleeps]

NoCalls ==
    [calls |-> 0, slept |-> 0, refilled |-> InitTokens, done |-> <<>>, sleeps |-> <<>>]

(***************************************************************************)
(* The backend's reply.  A reply is a text, a sequence of characters in    *)
(* which the one character "P" stands for the JSON document, and the       *)
(* document itself.                                                        *)
(***************************************************************************)
required_fields ==
    {"ai_risks", "iso_domains", "governance_gaps", "recommendations", "confidence_score"}

DigitStr == <<"1", "2", "3", "4", "5", "6">>
\* n free-text entries of an analysis list
Items(prefix, n) == [k \in 1..n |-> Str(<<prefix, DigitStr[k]>>)]

\* a JSON number or a value float() refuses; numbers are in hundredths
Number(v)    == [coercible |-> TRUE, v |-> v]
NotANumber   == [coercible |-> FALSE, v |-> 0]

Document(fields, nrisks, ndomains, ngaps, nrecs, conf, risks_null) ==
    [json            |-> TRUE,
     fields          |-> fields,
     ai_risks        |-> Items("risk", nrisks),
     ai_risks_null   |-> risks_null,
     iso_domains     |-> Items("A.", ndomains),
     governance_gaps |-> Items("gap", ngaps),
     recommendations |-> Items("rec", nrecs),
     confidence_score |-> conf]

GoodDocument == Document(required_fields, 1, 1, 1, 1, Number(80), FALSE)
Garbage      == [GoodDocument EXCEPT !.json = FALSE]

Documents ==
    { GoodDocument,
      Garbage,
      Document(required_fields, 2, 1, 2, 1, Number(150), FALSE),
      Document(required_fields, 1, 1, 1, 1, Number(0 - 20), FALSE),
      Document(required_fields, 1, 1, 1, 1, NotANumber, FALSE),
      Document(required_fields, 1, 1, 1, 1, Number(80), TRUE),
      Document(required_fields \ {"recommendations"}, 1, 1, 1, 0, Number(80), FALSE) }

\* the backtick character
Tick    == "BACKTICK"
Fence   == <<Tick, Tick, Tick>>
JsonTag == <<"j", "s", "o", "n">>
Fenced(tag, body) == Fence \o tag \o <<"\n">> \o body \o <<"\n">> \o Fence

ReplyTexts ==
    { <<"P">>, <<" ", "P", "\n">>, Fenced(JsonTag, <<"P">>), Fenced(<<>>, <<"P">>) }

\* the replies the text-generation call may give in the client specifications
Replies ==
    {[text |-> <<"P">>, doc |-> d] : d \in Documents}
    \cup {[text |-> t, doc |-> GoodDocument] : t \in ReplyTexts}

NoDocument == [Document({}, 0, 0, 0, 0, NotANumber, FALSE) EXCEPT !.json = FALSE]
NoReply == [text |-> <<>>, doc |-> NoDocument]

startswith(s, p) == Len(s) >= Len(p) /\ SubSeq(s, 1, Len(p)) = p
endswith(s, p)   == Len(s) >= Len(p) /\ SubSeq(s, Len(s) - Len(p) + 1, Len(s)) = p
DropFirst(s, n)  == SubSeq(s, n + 1, Len(s))
DropLast(s, n)   == SubSeq(s, 1, Len(s) - n)

\* _parse_response, lines 343-352: the fence repair
cleaned(text) ==
    LET c0 == strip(text)
        c1 == IF startswith(c0, Fence \o JsonTag) THEN DropFirst(c0, 7) ELSE c0
        c2 == IF startswith(c1, Fence) THEN DropFirst(c1, 3) ELSE c1
        c3 == IF endswith(c2, Fence) THEN DropLast(c2, 3) ELSE c2
    IN  strip(c3)

\* json.loads succeeds when the cleaned text is the document and nothing else
json_loads_ok(reply) == cleaned(reply.text) = <<"P">> /\ reply.doc.json

NoAnalysis ==
    [ai_risks |-> <<>>, ai_risks_null |-> FALSE, iso_domains |-> <<>>,
     governance_gaps |-> <<>>, recommendations |-> <<>>, confidence_score |-> 0]

AIRiskAnalysis(doc) ==
    [ai_risks         |-> doc.ai_risks,
     ai_risks_null    |-> doc.ai_risks_null,
     iso_domains      |-> doc.iso_domains,
     governance_gaps  |-> doc.governance_gaps,
     recommendations  |-> doc.recommendations,
     confidence_score |-> doc.confidence_score.v]

\* what a call produced: nothing yet, an analysis, None, or a raised error
NoResult         == [kind |-> "none",     error |-> "none", msg |-> "", analysis |-> NoAnalysis]
ReturnedNone     == [kind |-> "None",     error |-> "none", msg |-> "", analysis |-> NoAnalysis]
Analysis(a)      == [kind |-> "analysis", error |-> "none", msg |-> "", analysis |-> a]
Raised(err, msg) == [kind |-> "raised",   error |-> err,    msg |-> msg, analysis |-> NoAnalysis]

\* variant: the required fields are not checked
MutParseLenient(reply, ClientError) ==
    IF ~json_loads_ok(reply)
        THEN Raised(ClientError, "Failed to parse JSON response")
    ELSE IF ~reply.doc.confidence_score.coercible
        THEN Raised(ClientError, "Invalid response structure")
    ELSE Analysis(AIRiskAnalysis(reply.doc))

\* _parse_response (GeminiClient and ClaudeClient alike, up to the error's name)
parse_response(reply, ClientError) ==
    IF ~json_loads_ok(reply)
        THEN Raised(ClientError, "Failed to parse JSON response")
    ELSE IF required_fields \ reply.doc.fields # {}
        THEN Raised(ClientError, "Response missing required fields")
    ELSE IF ~reply.doc.confidence_score.coercible
        THEN Raised(ClientError, "Invalid response structure")
    ELSE Analysis(AIRiskAnalysis(reply.doc))

(***************************************************************************)
(* GeminiClient.analyze_use_case: the retry loop, one action per step.     *)
(***************************************************************************)
DefaultMaxRetries == 3
MaxRetries == 3   \* largest max_retries the client specification tries
MaxLatency == 1   \* longest text-generation call, in ticks

\* variant: the backoff grows by two seconds per attempt
MutPow2(n) == 2 * n + 1

\* line 236: 2 ** attempt, the backoff in seconds
Pow2(n) == 2 ^ n

ClientFrame(pc, max_retries) ==
    [pc |-> pc, max_retries |-> max_retries, attempt |-> 0,
     acquires |-> 0, api_calls |-> 0, parses |-> 0, backoffs |-> <<>>,
     reply |-> NoReply, result |-> NoResult]

IdleClient == ClientFrame("idle", 0)

\* for attempt in range(max_retries): the loop is entered, or falls through
LoopEntry(attempt, max_retries) ==
    IF attempt < max_retries THEN "acquire" ELSE "fell_through"

\* line 215: the for statement, on entry to the call and after each backoff
GeminiFor ==
    /\ cl.pc = "for"
    /\ cl' = IF LoopEntry(cl.attempt, cl.max_retries) = "acquire"
                THEN [cl EXCEPT !.pc = "acquire"]
                ELSE [cl EXCEPT !.pc = "done", !.result = ReturnedNone]
    /\ UNCHANGED <<parserVars, limiterVars, run>>

\* variant: only the first attempt takes a token
MutGeminiAcquire ==
    /\ cl.pc = "acquire"
    /\ IF cl.attempt = 0
          THEN /\ AcquireStep
               /\ cl' = [cl EXCEPT !.pc = "call", !.acquires = @ + 1]
          ELSE /\ UNCHANGED limiterVars
               /\ cl' = [cl EXCEPT !.pc = "call"]
    /\ UNCHANGED <<parserVars, run>>

\* line 218: self.rate_limiter.acquire()
GeminiAcquire ==
    /\ cl.pc = "acquire"
    /\ AcquireStep
    /\ cl' = [cl EXCEPT !.pc = "call", !.acquires = @ + 1]
    /\ UNCHANGED <<parserVars, run>>

\* line 221: self._call_api(prompt) returns a text, one of replies, or raises
GeminiCall(replies) ==
    /\ cl.pc = "call"
    /\ \E d \in 0..MaxLatency : now' = now + d
    /\ \/ \E r \in replies :
            cl' = [cl EXCEPT !.pc = "parse", !.api_calls = @ + 1, !.reply = r]
       \/ cl' = [cl EXCEPT !.pc = "except", !.api_calls = @ + 1, !.reply = NoReply,
                           !.result = Raised("Exception", "API call failed")]
    /\ UNCHANGED <<parserVars, tokens, last_refill, lim, run>>

GeminiCallApi == GeminiCall(Replies)

\* logger.info(f"... {len(analysis.ai_risks)} risks identified"), after the
\* parse in every client: len() of a null list raises TypeError
LogRiskCount(res) ==
    IF res.kind = "analysis" /\ res.analysis.ai_risks_null
        THEN Raised("TypeError", "object of type 'NoneType' has no len()")
        ELSE res

\* variant: a parsed analysis is kept and the loop goes on
MutGeminiParse ==
    /\ cl.pc = "parse"
    /\ LET res == LogRiskCount(parse_response(cl.reply, "GeminiClientError"))
       IN  cl' = IF res.kind = "analysis"
                    THEN [cl EXCEPT !.pc = "for", !.attempt = @ + 1,
                                    !.parses = @ + 1, !.result = res]
                    ELSE [cl EXCEPT !.pc = "except", !.parses = @ + 1, !.result = res]
    /\ UNCHANGED <<parserVars, limiterVars, run>>

\* lines 225-228: parse the reply and return it, or raise into the handler
GeminiParse ==
    /\ cl.pc = "parse"
    /\ LET res == LogRiskCount(parse_response(cl.reply, "GeminiClientError"))
       IN  cl' = IF res.kind = "analysis"
                    THEN [cl EXCEPT !.pc = "done", !.parses = @ + 1, !.result = res]
                    ELSE [cl EXCEPT !.pc = "except", !.parses = @ + 1, !.result = res]
    /\ UNCHANGED <<parserVars, limiterVars, run>>

\* variant: off by one: the last attempt backs off too
MutRetries(attempt, max_retries) == attempt + 1 <= max_retries

\* line 234: whether the handler retries
Retries(attempt, max_retries) == attempt + 1 < max_retries

\* lines 230-242: except Exception: back off and retry, or give up with an
\* error whose message ends in the text of the last failure
GeminiExcept ==
    /\ cl.pc = "except"
    /\ IF Retries(cl.attempt, cl.max_retries)
          THEN /\ now' = now + Seconds(Pow2(cl.attempt))
               /\ cl' = [cl EXCEPT !.pc = "for", !.attempt = @ + 1,
                                   !.backoffs = Append(@, Pow2(cl.attempt)),
                                   !.result = NoResult]
          ELSE /\ now' = now
               /\ cl' = [cl EXCEPT !.pc = "done",
                                   !.result = Raised("GeminiClientError", cl.result.msg)]
    /\ UNCHANGED <<parserVars, tokens, last_refill, lim, run>>

(***************************************************************************)
(* ClaudeClient.analyze_use_case: one call, no retry, no limiter.          *)
(***************************************************************************)
\* the anthropic errors analyze_use_case catches, and one it does not
\* (response.content[0] on a reply without content)
CaughtApiErrors == {"RateLimitError", "APIConnectionError", "APIError"}
OtherApiErrors  == {"IndexError"}

\* lines 131-148: _call_api returns a text, one of replies, or raises
ClaudeCall(replies) ==
    /\ cl.pc = "claude_call"
    /\ \E d \in 0..MaxLatency : now' = now + d
    /\ \/ \E r \in replies :
            cl' = [cl EXCEPT !.pc = "claude_parse", !.api_calls = @ + 1, !.reply = r]
       \/ \E e \in CaughtApiErrors :
            cl' = [cl EXCEPT !.pc = "done", !.api_calls = @ + 1,
                             !.result = Raised("ClaudeClientError", e)]
       \/ \E e \in OtherApiErrors :
            cl' = [cl EXCEPT !.pc = "done", !.api_calls = @ + 1,
                             !.result = Raised(e, "list index out of range")]
    /\ UNCHANGED <<parserVars, tokens, last_refill, lim, run>>

ClaudeCallApi == ClaudeCall(Replies)

\* lines 151-154
ClaudeParse ==
    /\ cl.pc = "claude_parse"
    /\ cl' = [cl EXCEPT !.pc = "done", !.parses = @ + 1,
                        !.result = LogRiskCount(parse_response(cl.reply, "ClaudeClientError"))]
    /\ UNCHANGED <<parserVars, limiterVars, run>>

(***************************************************************************)
(* The mock ClaudeClient: one of five canned analyses, chosen by keywords  *)
(* of the use case, returned after a sleep of 1.5 s.                       *)
(***************************************************************************)
Template(ndomains, conf) ==
    [ai_risks |-> Items("risk", 5), ai_risks_null |-> FALSE,
     iso_domains |-> Items("A.", ndomains), governance_gaps |-> Items("gap", 5),
     recommendations |-> Items("rec", 6), confidence_score |-> conf]

MockTemplates ==
    {Template(6, 88), Template(5, 92), Template(5, 85), Template(6, 90), Template(5, 75)}

\* lines 106-115: sleep, pick the template, return it
MockAnalyze ==
    /\ cl.pc = "mock_call"
    /\ now' = now + MockDelay
    /\ \E a \in MockTemplates : cl' = [cl EXCEPT !.pc = "done", !.result = Analysis(a)]
    /\ UNCHANGED <<parserVars, tokens, last_refill, lim, run>>

(***************************************************************************)
(* Riskanalyser: summary statistics and high-priority items.               *)
(***************************************************************************)
NaNValue    == [nan |-> TRUE,  v |-> 0]
Value(v)    == [nan |-> FALSE, v |-> v]

(***************************************************************************)
(* Floating point.  The scores are Python floats (IEEE 754 binary64), and  *)
(* round(x, 2) of one that lies beside a value ending in half a hundredth  *)
(* goes by the float's rounding error.  A float is a sign, a significand   *)
(* of 53 bits and an exponent: (-1)^neg * m * 2^e; every operation is the  *)
(* exact result rounded to the nearest float, ties to even.  Significands  *)
(* are naturals of any size: sequences of limbs below LimbBase, the lowest *)
(* first, with no zero limb on top.                                        *)
(***************************************************************************)
LimbBits == 15
LimbBase == 2 ^ LimbBits
SignificandBits == 53

RECURSIVE BigNorm(_)
BigNorm(a) ==
    IF a # <<>> /\ a[Len(a)] = 0 THEN BigNorm(SubSeq(a, 1, Len(a) - 1)) ELSE a

RECURSIVE BigOfNat(_)
BigOfNat(n) == IF n = 0 THEN <<>> ELSE <<n % LimbBase>> \o BigOfNat(n \div LimbBase)

RECURSIVE NatOfBig(_)
NatOfBig(a) == IF a = <<>> THEN 0 ELSE a[1] + LimbBase * NatOfBig(Tail(a))

Limb(a, i) == IF i <= Len(a) THEN a[i] ELSE 0

RECURSIVE BigAddFrom(_, _, _, _)
BigAddFrom(a, b, i, carry) ==
    IF i > Len(a) /\ i > Len(b)
        THEN IF carry = 0 THEN <<>> ELSE <<carry>>
        ELSE LET t == Limb(a, i) + Limb(b, i) + carry
             IN  <<t % LimbBase>> \o BigAddFrom(a, b, i + 1, t \div LimbBase)

BigAdd(a, b) == BigNorm(BigAddFrom(a, b, 1, 0))

RECURSIVE BigSubFrom(_, _, _, _)
BigSubFrom(a, b, i, borrow) ==
    IF i > Len(a) THEN <<>>
    ELSE LET t == Limb(a, i) - Limb(b, i) - borrow
         IN  IF t < 0 THEN <<t + LimbBase>> \o BigSubFrom(a, b, i + 1, 1)
                      ELSE <<t>> \o BigSubFrom(a, b, i + 1, 0)

\* a - b for a >= b
BigSub(a, b) == BigNorm(BigSubFrom(a, b, 1, 0))

RECURSIVE BigLessFrom(_, _, _)
BigLessFrom(a, b, i) ==
    IF i = 0 THEN FALSE
    ELSE IF Limb(a, i) # Limb(b, i) THEN Limb(a, i) < Limb(b, i)
    ELSE BigLessFrom(a, b, i - 1)

BigLess(a, b) == BigLessFrom(a, b, IF Len(a) >= Len(b) THEN Len(a) ELSE Len(b))

RECURSIVE BigTimesFrom(_, _, _, _)
BigTimesFrom(a, m, i, carry) ==
    IF i > Len(a) THEN BigOfNat(carry)
    ELSE LET t == a[i] * m + carry
         IN  <<t % LimbBase>> \o BigTimesFrom(a, m, i + 1, t \div LimbBase)

\* a * m for a natural m below LimbBase
BigTimes(a, m) == BigNorm(BigTimesFrom(a, m, 1, 0))

Zeros(k) == [i \in 1..k |-> 0]

RECURSIVE BigMulFrom(_, _, _)
BigMulFrom(a, b, i) ==
    IF i > Len(b) THEN <<>>
    ELSE BigAdd(Zeros(i - 1) \o BigTimes(a, b[i]), BigMulFrom(a, b, i + 1))

BigMul(a, b) == BigMulFrom(a, b, 1)

\* quotient and remainder of a by a natural d, 0 < d < LimbBase
RECURSIVE BigDivMod(_, _)
BigDivMod(a, d) ==
    IF a = <<>> THEN [q |-> <<>>, r |-> 0]
    ELSE LET hi == BigDivMod(Tail(a), d)
             t  == hi.r * LimbBase + a[1]
         IN  [q |-> BigNorm(<<t \div d>> \o hi.q), r |-> t % d]

RECURSIVE NatBits(_)
NatBits(n) == IF n = 0 THEN 0 ELSE 1 + NatBits(n \div 2)

\* the number of bits of a
BigBits(a) == IF a = <<>> THEN 0 ELSE LimbBits * (Len(a) - 1) + NatBits(a[Len(a)])

\* a * 2^k
BigShl(a, k) ==
    IF a = <<>> THEN <<>> ELSE Zeros(k \div LimbBits) \o BigTimes(a, 2 ^ (k % LimbBits))

\* a \div 2^k, and whether a bit was lost
BigShr(a, k) ==
    LET w    == IF k \div LimbBits <= Len(a) THEN k \div LimbBits ELSE Len(a)
        rest == [i \in 1..(Len(a) - w) |-> a[w + i]]
        dm   == BigDivMod(rest, 2 ^ (k % LimbBits))
    IN  IF k \div LimbBits >= Len(a)
            THEN [q |-> <<>>, lost |-> a # <<>>]
            ELSE [q |-> dm.q, lost |-> dm.r # 0 \/ \E i \in 1..w : a[i] # 0]

\* (a + f) / 2^k to the nearest natural, ties to even, for k >= 1 and a
\* fraction f that is positive when sticky and 0 otherwise
BigRoundShr(a, k, sticky) ==
    LET s1 == BigShr(a, k - 1)
        dm == BigDivMod(s1.q, 2)
        up == dm.r = 1 /\ (s1.lost \/ sticky \/ Limb(dm.q, 1) % 2 = 1)
    IN  IF up THEN BigAdd(dm.q, <<1>>) ELSE dm.q

FloatZero == [neg |-> FALSE, m |-> <<>>, e |-> 0]

\* the float nearest to (-1)^neg * (n + f) * 2^e, f as in BigRoundShr; a
\* sticky n has more than SignificandBits + 1 bits
FloatOf(neg, n, e, sticky) ==
    LET len == BigBits(n)
        k   == len - SignificandBits
        r   == BigRoundShr(n, k, sticky)
    IN  IF len = 0 THEN FloatZero
        ELSE IF k <= 0 THEN [neg |-> neg, m |-> BigShl(n, 0 - k), e |-> e + k]
        ELSE IF BigBits(r) > SignificandBits
            THEN [neg |-> neg, m |-> BigDivMod(r, 2).q, e |-> e + k + 1]
        ELSE [neg |-> neg, m |-> r, e |-> e + k]

\* float(i) of an integer i
FloatOfInt(i) == FloatOf(i < 0, BigOfNat(IF i < 0 THEN 0 - i ELSE i), 0, FALSE)

FloatNeg(a) == IF a.m = <<>> THEN a ELSE [a EXCEPT !.neg = ~a.neg]

\* a * b
FloatMul(a, b) ==
    IF a.m = <<>> \/ b.m = <<>> THEN FloatZero
    ELSE FloatOf(a.neg # b.neg, BigMul(a.m, b.m), a.e + b.e, FALSE)

\* a / d for a natural d, 0 < d < LimbBase: the quotient of the significand
\* with LimbBits + 2 more bits, and whether the division left a remainder
FloatDivNat(a, d) ==
    LET dm == BigDivMod(BigShl(a.m, LimbBits + 2), d)
    IN  IF a.m = <<>> THEN FloatZero
        ELSE FloatOf(a.neg, dm.q, a.e - (LimbBits + 2), dm.r # 0)

\* a + b
FloatAdd(a, b) ==
    LET e  == IF a.e <= b.e THEN a.e ELSE b.e
        am == BigShl(a.m, a.e - e)
        bm == BigShl(b.m, b.e - e)
    IN  IF a.m = <<>> THEN b
        ELSE IF b.m = <<>> THEN a
        ELSE IF a.neg = b.neg THEN FloatOf(a.neg, BigAdd(am, bm), e, FALSE)
        ELSE IF BigLess(am, bm) THEN FloatOf(b.neg, BigSub(bm, am), e, FALSE)
        ELSE FloatOf(a.neg, BigSub(am, bm), e, FALSE)

\* rint(a): the nearest integer, ties to even
FloatRint(a) ==
    LET n == IF a.e >= 0 THEN BigShl(a.m, a.e) ELSE BigRoundShr(a.m, 0 - a.e, FALSE)
    IN  IF a.neg THEN 0 - NatOfBig(n) ELSE NatOfBig(n)

\* the literals 0.6 and 0.4: the floats nearest to 6/10 and 4/10
Float0_6 == FloatDivNat(FloatOfInt(6), 10)
Float0_4 == FloatDivNat(FloatOfInt(4), 10)

\* float(data['confidence_score']) of a confidence of c hundredths
confidence_float(c) == FloatDivNat(FloatOfInt(c), 100)

\* line 206: risk_data['risk_score'].mean(), the float sum / count
mean_float(avg) == FloatDivNat(FloatOfInt(avg.num), avg.den)

\* lines 216-218: ((avg_risk_score / 25) * 0.6 + (1 - confidence) * 0.4) * 10
overall_float(avg, c) ==
    LET csv_component == FloatMul(FloatDivNat(mean_float(avg), 25), Float0_6)
        ai_component  ==
            FloatMul(FloatAdd(FloatOfInt(1), FloatNeg(confidence_float(c))), Float0_4)
    IN  FloatMul(FloatAdd(csv_component, ai_component), FloatOfInt(10))

\* round(x, 2) of a numpy float, in hundredths: rint(x * 100.0), which numpy
\* then divides by 100.0
round2(x) == FloatRint(FloatMul(x, FloatOfInt(100)))

\* variant: the digits after the second decimal are cut off
MutRoundDown(num, den, x) == num \div den

\* round(x, 2), in hundredths, of the float x computed for the exact value
\* of num/den hundredths.  x is within 2^-48 of that value, which, unless
\* it ends in exactly half a hundredth, is at least 1/(2 * den) hundredths
\* from any such point: the nearest hundredth of x is then that of num/den.
\* Where num/den ends in half a hundredth, x itself is rounded.
Round2(num, den, x) ==
    LET q == num \div den
        r == num % den
    IN  IF 2 * r < den THEN q
        ELSE IF 2 * r > den THEN q + 1
        ELSE round2(x)

\* variant: the confidence itself is weighted, not its complement
MutOverallNum(s, n, c) == 24 * s + (4 * c) * n

\* lines 216-218, exactly, in hundredths and before rounding, as num/den:
\* ((avg/25)*0.6 + (1 - confidence)*0.4) * 10 with avg = s/n and
\* confidence = c/100 is (24*s + (400 - 4*c)*n) / n hundredths
OverallNum(s, n, c) == 24 * s + (400 - 4 * c) * n

overall_risk_score(avg, c) ==
    IF avg.den = 0 THEN NaNValue
    ELSE Value(Round2(OverallNum(avg.num, avg.den, c), avg.den, overall_float(avg, c)))

average_risk_score(avg) ==
    IF avg.den = 0 THEN NaNValue
    ELSE Value(Round2(100 * avg.num, avg.den, mean_float(avg)))

\* value_counts() of the category column: missing cells are not counted
CategoryCounts(df) ==
    IF "category" \notin df.columns THEN {}
    ELSE {<<c, Cardinality({k \in 1..Len(df.rows) : df.rows[k]["category"] = c})>> :
            c \in {df.rows[k]["category"] : k \in {j \in 1..Len(df.rows) :
                                                      ~isna(df.rows[j]["category"])}}}

\* _generate_summary_statistics
generate_summary_statistics(df, a) ==
    [total_organizational_risks |-> Len(df.rows),
     total_ai_risks             |-> Len(a.ai_risks),
     total_governance_gaps      |-> Len(a.governance_gaps),
     iso_domains_affected       |-> Len(a.iso_domains),
     high_risk_items            |-> Cardinality(high_risk(df)),
     average_risk_score         |-> average_risk_score(mean(df, "risk_score")),
     overall_risk_score         |-> overall_risk_score(mean(df, "risk_score"), a.confidence_score),
     ai_analysis_confidence     |-> a.confidence_score,
     risk_categories            |-> CategoryCounts(df)]

NoStatistics ==
    [total_organizational_risks |-> 0, total_ai_risks |-> 0, total_governance_gaps |-> 0,
     iso_domains_affected |-> 0, high_risk_items |-> 0, average_risk_score |-> NaNValue,
     overall_risk_score |-> NaNValue, ai_analysis_confidence |-> 0, risk_categories |-> {}]

RECURSIVE MutSelectRows(_, _)
\* variant: a row at the threshold is not selected
MutSelectRows(rows, threshold) ==
    IF rows = <<>> THEN <<>>
    ELSE IF Head(rows)["risk_score"].v > threshold
        THEN <<Head(rows)>> \o MutSelectRows(Tail(rows), threshold)
        ELSE MutSelectRows(Tail(rows), threshold)

RECURSIVE SelectRows(_, _)
\* risk_data[risk_data['risk_score'] >= 15], in register order
SelectRows(rows, threshold) ==
    IF rows = <<>> THEN <<>>
    ELSE IF Head(rows)["risk_score"].v >= threshold
        THEN <<Head(rows)>> \o SelectRows(Tail(rows), threshold)
        ELSE SelectRows(Tail(rows), threshold)

Placeholder(text) == Str(<<text>>)
TakeFirst(s, n) == SubSeq(s, 1, Min(n, Len(s)))

\* lines 254-262
RegisterItems(df) ==
    LET high == SelectRows(df.rows, HighRiskThreshold)
    IN  [k \in 1..Len(high) |->
            [source      |-> "organizational_risk_register",
             priority    |-> "HIGH",
             risk_id     |-> high[k]["risk_id"],
             description |-> high[k]["risk_description"],
             risk_score  |-> Value(high[k]["risk_score"].v),
             action      |-> IF "mitigation" \in DOMAIN high[k]
                                THEN high[k]["mitigation"]
                                ELSE Placeholder("No mitigation documented")]]

\* variant: a gap is paired with the recommendation after its own
MutGapItems(a) ==
    LET gaps == TakeFirst(a.governance_gaps, 3)
    IN  [i \in 1..Len(gaps) |->
            [source      |-> "ai_governance_analysis",
             priority    |-> "HIGH",
             risk_id     |-> Str(<<"AI-GAP-", "0", "0", DigitStr[i]>>),
             description |-> gaps[i],
             risk_score  |-> NaNValue,
             action      |-> IF i + 1 <= Len(a.recommendations)
                                THEN a.recommendations[i + 1]
                                ELSE Placeholder("Review required")]]

\* lines 265-273
GapItems(a) ==
    LET gaps == TakeFirst(a.governance_gaps, 3)
    IN  [i \in 1..Len(gaps) |->
            [source      |-> "ai_governance_analysis",
             priority    |-> "HIGH",
             risk_id     |-> Str(<<"AI-GAP-", "0", "0", DigitStr[i]>>),
             description |-> gaps[i],
             risk_score  |-> NaNValue,
             action      |-> IF i <= Len(a.recommendations)
                                THEN a.recommendations[i]
                                ELSE Placeholder("Review required")]]

\* lines 276-284
AiRiskItems(a) ==
    LET risks == TakeFirst(a.ai_risks, 2)
    IN  [i \in 1..Len(risks) |->
            [source      |-> "ai_risk_analysis",
             priority    |-> "MEDIUM",
             risk_id     |-> Str(<<"AI-RISK-", "0", "0", DigitStr[i]>>),
             description |-> risks[i],
             risk_score  |-> NaNValue,
             action      |-> Placeholder("Implement AI risk controls")]]

\* variant: the governance gaps come first
MutGroupOrder(df, a) == GapItems(a) \o RegisterItems(df) \o AiRiskItems(a)

\* _identify_high_priority_items
identify_high_priority_items(df, a) == RegisterItems(df) \o GapItems(a) \o AiRiskItems(a)

NoAssessment ==
    [organizational_risks |-> NoFrame, ai_governance_analysis |-> NoAnalysis,
     summary_statistics |-> NoStatistics, high_priority_items |-> <<>>]

(***************************************************************************)
(* The analyse command (agie.py) and Riskanalyser.analyse.                 *)
(***************************************************************************)
Providers == {"gemini", "claude", "mock", "other"}

\* Riskanalyser.__init__, lines 84-99: the error class analyse will catch
AIClientError(provider) ==
    CASE provider = "gemini" -> "GeminiClientError"
      [] provider = "claude" -> "ClaudeClientError"
      [] OTHER               -> "MockClientError"

NoError == [kind |-> "none", stage |-> "none", cause |-> "none"]

\* raise RiskanalyserError(f"Failed to ...: {e}"): the stage is the message's
\* prefix, the cause the error it was raised from
RiskanalyserError(stage, cause) ==
    [kind |-> "RiskanalyserError", stage |-> stage, cause |-> cause]
\* an error that passes through unwrapped
Escaped(kind) == [kind |-> kind, stage |-> "none", cause |-> kind]

\* what an earlier call of analyse on this analyser gave its caller: the
\* analysis its backend call returned, the assessment, and the attempt of the
\* backend that succeeded
NoFirst ==
    [done |-> FALSE, analysis |-> NoAnalysis, assessment |-> NoAssessment, attempt |-> 0]

RunFrame(pc, provider, api_key) ==
    [pc |-> pc, provider |-> provider, api_key |-> api_key,
     raised_by |-> "none", error |-> NoError, backend_calls |-> 0,
     assessment |-> NoAssessment, handler |-> "none", first |-> NoFirst]

IdleRun == RunFrame("idle", "gemini", TRUE)

\* agie.py line 108, risk_analyser.py lines 80-105: Riskanalyser(ai_provider)
Construct ==
    /\ run.pc = "cli_start"
    /\ run' =
        IF run.provider \in {"gemini", "claude"} /\ ~run.api_key
            THEN [run EXCEPT !.pc = "raised", !.raised_by = "init",
                             !.error = Escaped(AIClientError(run.provider))]
        ELSE IF run.provider \notin {"gemini", "claude", "mock"}
            THEN [run EXCEPT !.pc = "raised", !.raised_by = "init",
                             !.error = RiskanalyserError("init", "none")]
        ELSE [run EXCEPT !.pc = "parse"]
    /\ UNCHANGED <<parserVars, limiterVars, cl>>

\* lines 147-150: how step 1 ends on a parser error
WrapParserError(res) == RiskanalyserError("register", res.error)

\* variant: a parser error is logged and the run goes on to the backend
MutParseRegister ==
    /\ run.pc = "parse"
    /\ LET res == parse_result(file)
       IN  /\ parsed' = res
           /\ summary' = IF res.ok THEN get_summary(res.df) ELSE summary
           /\ ppc' = IF res.ok THEN "summarised" ELSE "parsed"
           /\ run' = [run EXCEPT !.pc = "call_backend"]
    /\ UNCHANGED <<file, limiterVars, cl>>

\* variant: a parser error is logged and the register is parsed again
MutRetryParse ==
    /\ run.pc = "parse"
    /\ LET res == parse_result(file)
       IN  /\ parsed' = res
           /\ summary' = IF res.ok THEN get_summary(res.df) ELSE summary
           /\ ppc' = IF res.ok THEN "summarised" ELSE "parsed"
           /\ run' = IF res.ok THEN [run EXCEPT !.pc = "call_backend"] ELSE run
    /\ UNCHANGED <<file, limiterVars, cl>>

\* analyse, step 1 (lines 141-150): parse and summarise the register
ParseRegister ==
    /\ run.pc = "parse"
    /\ LET res == parse_result(file)
       IN  /\ parsed' = res
           /\ IF res.ok
                 THEN /\ summary' = get_summary(res.df)
                      /\ ppc' = "summarised"
                      /\ run' = [run EXCEPT !.pc = "call_backend"]
                 ELSE /\ summary' = summary
                      /\ ppc' = "parsed"
                      /\ run' = [run EXCEPT !.pc = "raised", !.raised_by = "analyse",
                                            !.error = WrapParserError(res)]
    /\ UNCHANGED <<file, limiterVars, cl>>

\* where the selected backend's analyze_use_case starts
BackendEntry(provider) ==
    CASE provider = "gemini" -> "for"
      [] provider = "claude" -> "claude_call"
      [] OTHER               -> "mock_call"

\* analyse, step 2 (line 155): the call into the backend
CallBackend ==
    /\ run.pc = "call_backend"
    /\ cl' = ClientFrame(BackendEntry(run.provider), DefaultMaxRetries)
    /\ run' = [run EXCEPT !.pc = "in_backend", !.backend_calls = @ + 1]
    /\ UNCHANGED <<parserVars, limiterVars>>

\* lines 154-163: what the try statement of step 2 makes of the call's
\* outcome: the analysis, or the error that leaves analyse
Step2Outcome(res, provider) ==
    IF res.kind = "raised"
        THEN IF res.error = AIClientError(provider)
                THEN RiskanalyserError("analysis", res.error)
                ELSE Escaped(res.error)
    ELSE IF res.kind = "None"
        THEN Escaped("AttributeError")
    ELSE IF res.analysis.ai_risks_null
        THEN Escaped("TypeError")
    ELSE NoError

\* analyse, step 2, after the backend call came back
BackendReturn ==
    /\ run.pc = "in_backend" /\ cl.pc = "done"
    /\ LET err == Step2Outcome(cl.result, run.provider)
       IN  run' = IF err = NoError
                     THEN [run EXCEPT !.pc = "fuse"]
                     ELSE [run EXCEPT !.pc = "raised", !.raised_by = "analyse", !.error = err]
    /\ UNCHANGED <<parserVars, limiterVars, cl>>

\* lines 165-187: what steps 3 and 4 make of the table and the analysis
Assess(df, a) ==
    [organizational_risks   |-> df,
     ai_governance_analysis |-> a,
     summary_statistics     |-> generate_summary_statistics(df, a),
     high_priority_items    |-> identify_high_priority_items(df, a)]

\* variant: the item list is kept on the analyser and every call of analyse
\* appends to it
MutFuseAccumulate ==
    /\ run.pc = "fuse"
    /\ LET res == Assess(parsed.df, cl.result.analysis)
       IN  run' = [run EXCEPT !.pc = "returned",
                              !.assessment = [res EXCEPT
                                  !.high_priority_items =
                                      run.first.assessment.high_priority_items \o @]]
    /\ UNCHANGED <<parserVars, limiterVars, cl>>

\* analyse, steps 3 and 4, and the return
Fuse ==
    /\ run.pc = "fuse"
    /\ run' = [run EXCEPT !.pc = "returned",
                          !.assessment = Assess(parsed.df, cl.result.analysis)]
    /\ UNCHANGED <<parserVars, limiterVars, cl>>

\* the caller keeps the assessment and calls analyse again on the same
\* analyser and the same register (lines 109-138): risk_data, ai_analysis and
\* the assessment are locals of the call and start afresh, while
\* self.ai_client, with its limiter, and the clock go on
AnalyseAgain ==
    /\ run.pc = "returned" /\ ~run.first.done
    /\ run' = [run EXCEPT !.pc = "parse", !.assessment = NoAssessment,
                          !.first = [done |-> TRUE, analysis |-> cl.result.analysis,
                                     assessment |-> run.assessment,
                                     attempt |-> cl.attempt]]
    /\ cl' = IdleClient
    /\ ppc' = "start" /\ parsed' = NotParsed /\ summary' = NoSummary
    /\ UNCHANGED <<file, limiterVars>>

\* agie.py lines 141-160: the except clause that takes an error, in order
Handler(kind) ==
    CASE kind = "CSVParserError"    -> "CSV Parsing Error"
      [] kind = "GeminiClientError" -> "AI Analysis Error"
      [] kind = "RiskanalyserError" -> "Analysis Error"
      [] OTHER                      -> "Unexpected Error"

\* the analyse command's end: the report, or one of the handlers
CliExit ==
    /\ run.pc \in {"returned", "raised"}
    /\ run' = [run EXCEPT !.pc = "exit",
                          !.handler = IF run.pc = "returned" THEN "Analysis Complete"
                                      ELSE Handler(run.error.kind)]
    /\ UNCHANGED <<parserVars, limiterVars, cl>>

(***************************************************************************)
(* Idle frames of the parts a specification does not exercise.             *)
(***************************************************************************)

ParserIdle ==
    /\ file = MissingFile /\ ppc = "start" /\ parsed = NotParsed /\ summary = NoSummary
LimiterInit ==
    /\ now = 0 /\ tokens = InitTokens /\ last_refill = 0 /\ lim = NoCalls

(***************************************************************************)
(* SpecParse: parse, then get_summary, on every register of Files.         *)
(***************************************************************************)
InitParse ==
    /\ file \in Files
    /\ ppc = "start" /\ parsed = NotParsed /\ summary = NoSummary
    /\ LimiterInit
    /\ cl = IdleClient /\ run = IdleRun

Parse ==
    /\ ppc = "start"
    /\ parsed' = parse_result(file)
    /\ ppc' = "parsed"
    /\ UNCHANGED <<file, summary, limiterVars, cl, run>>

GetSummary ==
    /\ ppc = "parsed" /\ parsed.ok
    /\ summary' = get_summary(parsed.df)
    /\ ppc' = "summarised"
    /\ UNCHANGED <<file, parsed, limiterVars, cl, run>>

NextParse == Parse \/ GetSummary
SpecParse == InitParse /\ [][NextParse]_vars

(***************************************************************************)
(* SpecLimiter: one caller of acquire(), with idle gaps between calls.     *)
(***************************************************************************)
InitLimiter ==
    /\ ParserIdle /\ LimiterInit
    /\ cl = IdleClient /\ run = IdleRun

Idle ==
    /\ \E d \in 1..MaxIdle :
          /\ now + d <= MaxClock
          /\ now' = now + d
    /\ UNCHANGED <<parserVars, tokens, last_refill, lim, cl, run>>

Acquire ==
    /\ lim.calls < MaxCalls
    /\ now <= MaxClock
    /\ AcquireStep
    /\ UNCHANGED <<parserVars, cl, run>>

NextLimiter == Idle \/ Acquire
SpecLimiter == InitLimiter /\ [][NextLimiter]_vars

(***************************************************************************)
(* SpecClient: GeminiClient.analyze_use_case for max_retries in            *)
(* 0..MaxRetries, on a fresh limiter.                                      *)
(***************************************************************************)
InitClient ==
    /\ ParserIdle /\ LimiterInit
    /\ cl \in {ClientFrame("for", n) : n \in 0..MaxRetries}
    /\ run = IdleRun

NextClient == GeminiFor \/ GeminiAcquire \/ GeminiCallApi \/ GeminiParse \/ GeminiExcept
SpecClient == InitClient /\ [][NextClient]_vars

(***************************************************************************)
(* Spec: the analyse command on a register and a provider.                 *)
(***************************************************************************)
RunRows ==
    { Row(Str(<<"a">>), Str(<<"a">>), Num(5), Num(4)),
      Row(Str(<<"a">>), Str(<<"a">>), Num(2), Num(2)),
      Row(Str(<<"a">>), Str(<<"a">>), Num(MaxRating), Num(1)),
      Row(Str(<<" ">>), Str(<<"a">>), Num(3), Num(5)) }

RunFiles ==
    { UnreadableFile, Frame(required_columns \ {"impact"}, <<>>) }
    \cup {Frame(required_columns, rows) : rows \in [1..2 -> RunRows]}

Init ==
    /\ file \in RunFiles
    /\ ppc = "start" /\ parsed = NotParsed /\ summary = NoSummary
    /\ LimiterInit
    /\ cl = IdleClient
    /\ run \in {RunFrame("cli_start", p, k) : p \in Providers, k \in BOOLEAN}

Next ==
    \/ Construct
    \/ ParseRegister
    \/ CallBackend
    \/ GeminiFor \/ GeminiAcquire \/ GeminiCallApi \/ GeminiParse \/ GeminiExcept
    \/ ClaudeCallApi \/ ClaudeParse
    \/ MockAnalyze
    \/ BackendReturn
    \/ Fuse
    \/ CliExit

Spec == Init /\ [][Next]_vars

(***************************************************************************)
(* SpecRerun: Riskanalyser.analyse called twice on one analyser and one    *)
(* register, with each backend; the second call finds the limiter and the  *)
(* clock as the first left them.                                           *)
(***************************************************************************)
RerunFiles ==
    {Frame(required_columns, <<r>>) : r \in RunRows}
    \cup {Frame(required_columns, <<r, Row(Str(<<"a">>), Str(<<"a">>), Num(5), Num(4))>>) :
            r \in RunRows}

InitRerun ==
    /\ file \in RerunFiles
    /\ ppc = "start" /\ parsed = NotParsed /\ summary = NoSummary
    /\ LimiterInit
    /\ cl = IdleClient
    /\ run \in {RunFrame("parse", p, TRUE) : p \in {"gemini", "claude", "mock"}}

NextRerun ==
    \/ ParseRegister
    \/ CallBackend
    \/ GeminiFor \/ GeminiAcquire \/ GeminiCallApi \/ GeminiParse \/ GeminiExcept
    \/ ClaudeCallApi \/ ClaudeParse
    \/ MockAnalyze
    \/ BackendReturn
    \/ Fuse
    \/ AnalyseAgain

SpecRerun == InitRerun /\ [][NextRerun]_vars

(***************************************************************************)
(* SpecFusion: Riskanalyser.analyse on registers with and without a        *)
(* mitigation column and on analyses whose lists have every length in      *)
(* 0..MaxListLen, through the backend that makes one call (Claude).        *)
(***************************************************************************)
MaxListLen    == 5   \* longest list of an analysis
MaxFusionRows == 3   \* registers of every length up to this one
LongRegister  == 5   \* and the registers of exactly this length

FusionColumns == {required_columns, required_columns \cup {"mitigation"}}

FusionRow(cols, id, l, i, mit) ==
    [c \in cols |->
        CASE c = "risk_id"          -> id
          [] c = "risk_description" -> Str(<<"a">>)
          [] c = "likelihood"       -> Num(l)
          [] c = "impact"           -> Num(i)
          [] OTHER                  -> mit]

\* scores 20, 15 and 4; the mitigation cell filled, empty and padded
FusionRows(cols) ==
    { FusionRow(cols, Str(<<"a">>), 5, 4, Str(<<"a">>)),
      FusionRow(cols, Str(<<"a", "a">>), 3, 5, NaNStr),
      FusionRow(cols, Str(<<"a", " ", "a">>), 2, 2, Str(<<" ", "a">>)) }

\* the rows of the long registers: scores 20 and 4
LongRows ==
    { FusionRow(required_columns, Str(<<"a">>), 5, 4, NaNStr),
      FusionRow(required_columns, Str(<<"a", " ", "a">>), 2, 2, NaNStr) }

\* rows at the threshold and next below it: scores 15 and 12
BoundaryRows ==
    { FusionRow(required_columns, Str(<<"a">>), 5, 3, NaNStr),
      FusionRow(required_columns, Str(<<"a", "a">>), 3, 4, NaNStr) }

\* registers whose average or overall score ends in half a hundredth: 8 rows
\* scoring 9 in all (average 1.125), 16 rows scoring 21 (overall 4.315 at
\* confidence 0) and 40 rows scoring 49 (average 1.225); t is the number of
\* rows, how many of them are not 1 by 1, and what these are
TieFiles ==
    {Frame(required_columns,
           [k \in 1..t[1] |->
               IF k <= t[1] - t[2]
                   THEN FusionRow(required_columns, Str(<<"a">>), 1, 1, NaNStr)
                   ELSE FusionRow(required_columns, Str(<<"a">>), t[3], t[4], NaNStr)]) :
        t \in {<<8, 1, 2, 1>>, <<16, 1, 2, 3>>, <<40, 3, 2, 2>>}}

FusionFiles ==
    UNION {{Frame(cols, rows) : rows \in [1..n -> FusionRows(cols)]} :
            cols \in FusionColumns, n \in 0..MaxFusionRows}
    \cup {Frame(required_columns, rows) :
            rows \in [1..LongRegister -> LongRows]}
    \cup UNION {{Frame(required_columns, rows) : rows \in [1..n -> BoundaryRows]} :
                    n \in 1..2}
    \cup TieFiles

\* lengths of ai_risks, governance_gaps and recommendations
FusionShapes ==
    {s \in (0..MaxListLen) \X (0..MaxListLen) \X (0..MaxListLen) :
        s[1] = 1 \/ (s[2] = MaxListLen /\ s[3] \in {MaxListLen - 1, MaxListLen})}

FusionConfidences == {0, 80, 100}

FusionReplies ==
    {[text |-> <<"P">>,
      doc  |-> Document(required_fields, s[1], 2, s[2], s[3], Number(c), FALSE)] :
        s \in FusionShapes, c \in FusionConfidences}

InitFusion ==
    /\ file \in FusionFiles
    /\ ppc = "start" /\ parsed = NotParsed /\ summary = NoSummary
    /\ LimiterInit
    /\ cl = IdleClient
    /\ run = RunFrame("parse", "claude", TRUE)

FusionCallApi == ClaudeCall(FusionReplies)

NextFusion ==
    \/ ParseRegister
    \/ CallBackend
    \/ FusionCallApi
    \/ ClaudeParse
    \/ BackendReturn
    \/ Fuse

SpecFusion == InitFusion /\ [][NextFusion]_vars

(***************************************************************************)
(* SpecResponse: one call of either client, on replies with every subset   *)
(* of the required fields and every kind of fence.                         *)
(***************************************************************************)
MaxListVariants == 2   \* valid documents with lists of 1..MaxListVariants entries

UpperTag == <<"J", "S", "O", "N">>
OtherTag == <<"j", "s">>
FenceTags == {<<>>, JsonTag, UpperTag, OtherTag}

ResponseDocuments ==
    {Document(f, 1, 1, 1, 1, c, FALSE) :
        f \in SUBSET required_fields, c \in {Number(80), NotANumber}}
    \cup {Garbage}

ValidDocuments ==
    {Document(required_fields, n, n, n, n, Number(80), FALSE) : n \in 1..MaxListVariants}

ResponseTexts ==
    {<<"P">>}
    \cup {Fenced(tag, <<"P">>) : tag \in FenceTags}
    \cup {Fence \o tag \o <<"P">> \o Fence : tag \in FenceTags}

ResponseReplies ==
    {[text |-> <<"P">>, doc |-> d] : d \in ResponseDocuments}
    \cup {[text |-> t, doc |-> d] : t \in ResponseTexts, d \in ValidDocuments}

InitResponse ==
    /\ ParserIdle /\ LimiterInit
    /\ cl \in {ClientFrame("for", 1), ClientFrame("claude_call", 1)}
    /\ run = IdleRun

ResponseGeminiCallApi == GeminiCall(ResponseReplies)
ResponseClaudeCallApi == ClaudeCall(ResponseReplies)

NextResponse ==
    \/ GeminiFor \/ GeminiAcquire \/ ResponseGeminiCallApi \/ GeminiParse \/ GeminiExcept
    \/ ResponseClaudeCallApi \/ ClaudeParse

SpecResponse == InitResponse /\ [][NextResponse]_vars

(***************************************************************************)
(* The claims.                                                             *)
(***************************************************************************)

\* C1 (SpecClient): with max_retries = N >= 1, analyze_use_case makes at most
\* N attempts; when it raises, the error is GeminiClientError and exactly N
\* acquires and N generation calls were made; when it returns, it returns the
\* analysis parsed from the reply of the attempt that succeeded.
C1_AtMostNAttempts ==
    cl.max_retries >= 1 =>
        /\ cl.api_calls <= cl.max_retries
        /\ cl.acquires <= cl.max_retries
        /\ cl.pc = "done" =>
            \/ /\ cl.result.kind = "raised"
               /\ cl.result.error = "GeminiClientError"
               /\ cl.api_calls = cl.max_retries
               /\ cl.acquires = cl.max_retries
            \/ /\ cl.result.kind = "analysis"
               /\ cl.api_calls = cl.attempt + 1
               /\ cl.result = parse_response(cl.reply, "GeminiClientError")

C1_Witness ==
    /\ cl.pc = "done" /\ cl.result.kind = "raised"
    /\ cl.max_retries = MaxRetries /\ cl.api_calls = MaxRetries

\* C2 (SpecLimiter): between any two completed acquire() calls, the calls
\* completed do not exceed the burst of max_requests plus max_requests per
\* time_window of the time between them.
C2_RateNeverExceeded ==
    \A i \in 1..Len(lim.done) : \A j \in i..Len(lim.done) :
        (j - i + 1 - max_requests) * time_window
            <= (lim.done[j] - lim.done[i]) * max_requests

\* C3 (Spec): an error that leaves Riskanalyser.analyse is a RiskanalyserError.
C3_OnlyRiskanalyserError ==
    run.raised_by = "analyse" => run.error.kind = "RiskanalyserError"

\* C4 (Spec): when analyse failed on the register, the except clause of the
\* CLI that takes the error is not the one that takes a failure of the
\* backend: the kinds are still apart when they reach the CLI.
C4_KindsSurviveToCli ==
    (run.pc = "exit" /\ run.raised_by = "analyse" /\ run.error.stage = "register") =>
        run.handler #
            Handler(Step2Outcome(Raised(AIClientError(run.provider), ""), run.provider).kind)

\* C5 (Spec): the register is parsed before the backend is called.  Once
\* anything of the backend has happened (the call, an acquire, a generation
\* call) the register was parsed into a table; and when the register failed,
\* analyse raised RiskanalyserError with the backend untouched and the bucket
\* still full.
C5_ParseBeforeBackend ==
    /\ (run.backend_calls > 0 \/ cl # IdleClient \/ lim.calls > 0) =>
            (parsed.ok /\ ppc = "summarised")
    /\ (ppc # "start" /\ ~parsed.ok) =>
            /\ run.pc \in {"raised", "exit"}
            /\ run.raised_by = "analyse"
            /\ run.error = RiskanalyserError("register", "CSVParserError")
            /\ run.backend_calls = 0 /\ cl = IdleClient
            /\ lim = NoCalls /\ tokens = InitTokens

C5_Witness ==
    /\ run.pc = "raised" /\ run.error.stage = "register"
    /\ Len(file.rows) = 2 /\ run.provider = "gemini"

\* C6 (Spec): an assessment is returned only for a confidence_score within
\* [0, 1] (0..100 hundredths).
C6_ConfidenceValidated ==
    run.pc = "returned" =>
        run.assessment.ai_governance_analysis.confidence_score \in 0..100

\* C7 (SpecParse): in a table that parse returned, no risk_id and no
\* risk_description is missing or empty.
C7_NoEmptyIdOrDescription ==
    parsed.ok =>
        \A k \in 1..Len(parsed.df.rows) : \A col \in {"risk_id", "risk_description"} :
            /\ ~isna(parsed.df.rows[k][col])
            /\ parsed.df.rows[k][col].v # <<>>

HasRequired(f) == f.exists /\ f.readable /\ required_columns \subseteq f.columns

BadRating(row) ==
    \/ isna(row["likelihood"]) \/ row["likelihood"].v \notin 1..5
    \/ isna(row["impact"])     \/ row["impact"].v \notin 1..5

\* C8 (SpecParse): a register with a row whose likelihood or impact is outside
\* 1..5 is rejected with CSVParserError and no table is returned.
C8_RejectedWholesale ==
    (ppc # "start" /\ HasRequired(file) /\ \E k \in 1..Len(file.rows) : BadRating(file.rows[k])) =>
        /\ ~parsed.ok
        /\ parsed.error = "CSVParserError"
        /\ parsed.df = NoFrame

C8_Witness ==
    /\ ppc = "parsed" /\ HasRequired(file) /\ Len(file.rows) = 2
    /\ BadRating(file.rows[1]) /\ ~BadRating(file.rows[2])
    /\ ~isna(file.rows[1]["risk_id"]) /\ ~isna(file.rows[1]["risk_description"])
    /\ ~isna(file.rows[2]["risk_id"]) /\ ~isna(file.rows[2]["risk_description"])
    /\ ~parsed.ok

\* C9 (SpecParse): a readable register that lacks a required column is
\* rejected with CSVParserError, whatever optional columns it has.
C9_MissingColumnRejected ==
    (ppc # "start" /\ file.exists /\ file.readable
        /\ ~(required_columns \subseteq file.columns)) =>
        /\ ~parsed.ok
        /\ parsed.error = "CSVParserError"

C9_Witness ==
    /\ ppc = "parsed"
    /\ file.columns = (required_columns \ {"impact"}) \cup optional_columns
    /\ Len(file.rows) = 1
    /\ ~parsed.ok

\* C10 (SpecParse): in a returned table every row has likelihood and impact
\* in 1..5 and risk_score = likelihood * impact, in 1..25; and the
\* average_risk_score of get_summary is the sum of that column over the
\* number of rows.
C10_ScoreAndMean ==
    /\ parsed.ok =>
        \A k \in 1..Len(parsed.df.rows) :
            LET row == parsed.df.rows[k]
            IN  /\ ~isna(row["likelihood"]) /\ row["likelihood"].v \in 1..5
                /\ ~isna(row["impact"])     /\ row["impact"].v \in 1..5
                /\ row["risk_score"].v = row["likelihood"].v * row["impact"].v
                /\ row["risk_score"].v \in 1..25
    /\ ppc = "summarised" =>
        /\ summary.average_risk_score.den = Len(parsed.df.rows)
        /\ summary.average_risk_score.num =
              SumSeq([k \in 1..Len(parsed.df.rows) |-> parsed.df.rows[k]["risk_score"].v])

C10_Witness ==
    /\ ppc = "summarised" /\ Len(parsed.df.rows) = 2
    /\ parsed.df.rows[1]["risk_score"].v = 20
    /\ parsed.df.rows[2]["risk_score"].v = 4
    /\ summary.average_risk_score = [num |-> 24, den |-> 2]

\* the rows of the returned table that score 15 or more, as indices in
\* register order
HighRows == {k \in 1..Len(parsed.df.rows) : parsed.df.rows[k]["risk_score"].v >= 15}
NthHighRow(n) ==
    CHOOSE k \in HighRows : Cardinality({j \in HighRows : j <= k}) = n
ReturnedItems    == run.assessment.high_priority_items
ReturnedAnalysis == run.assessment.ai_governance_analysis

\* C11 (SpecFusion): high_priority_items is the H register rows scoring 15 or
\* more in register order (HIGH, numeric score), then the first min(3, G)
\* governance gaps (HIGH, AI-GAP-001.., no score), then the first min(2, A)
\* ai_risks (MEDIUM, AI-RISK-001.., no score), and nothing else.
C11_ItemsInFixedOrder ==
    run.pc = "returned" =>
        LET items == ReturnedItems
            a     == ReturnedAnalysis
            H     == Cardinality(HighRows)
            G     == Min(3, Len(a.governance_gaps))
            A     == Min(2, Len(a.ai_risks))
        IN  /\ Len(items) = H + G + A
            /\ \A n \in 1..H :
                  LET row == parsed.df.rows[NthHighRow(n)]
                  IN  /\ items[n].priority = "HIGH"
                      /\ items[n].risk_id = row["risk_id"]
                      /\ items[n].description = row["risk_description"]
                      /\ items[n].risk_score = Value(row["risk_score"].v)
            /\ \A i \in 1..G :
                  /\ items[H + i].priority = "HIGH"
                  /\ items[H + i].risk_id = Str(<<"AI-GAP-", "0", "0", DigitStr[i]>>)
                  /\ items[H + i].description = a.governance_gaps[i]
                  /\ items[H + i].risk_score = NaNValue
            /\ \A i \in 1..A :
                  /\ items[H + G + i].priority = "MEDIUM"
                  /\ items[H + G + i].risk_id = Str(<<"AI-RISK-", "0", "0", DigitStr[i]>>)
                  /\ items[H + G + i].description = a.ai_risks[i]
                  /\ items[H + G + i].risk_score = NaNValue

\* two rows scoring 15 then 20, five gaps, four ai_risks: seven items, the
\* row scoring 15 first
C11_Witness ==
    /\ run.pc = "returned"
    /\ Cardinality(HighRows) = 2
    /\ Len(ReturnedAnalysis.governance_gaps) = 5
    /\ Len(ReturnedAnalysis.ai_risks) = 4
    /\ Len(ReturnedItems) = 7
    /\ ReturnedItems[1].risk_score = Value(15)
    /\ ReturnedItems[2].risk_score = Value(20)

\* C12 (SpecFusion): the item of the i-th governance gap (of the first three)
\* has recommendations[i] as its action when the list has an i-th entry and
\* "Review required" otherwise.
C12_GapActionAligned ==
    run.pc = "returned" =>
        LET a == ReturnedAnalysis
            H == Cardinality(HighRows)
        IN  \A i \in 1..Min(3, Len(a.governance_gaps)) :
                ReturnedItems[H + i].action =
                    IF i <= Len(a.recommendations)
                        THEN a.recommendations[i]
                        ELSE Placeholder("Review required")

\* three gaps and two recommendations, behind one register item
C12_Witness ==
    /\ run.pc = "returned"
    /\ Cardinality(HighRows) = 1
    /\ Len(ReturnedAnalysis.governance_gaps) = 3
    /\ Len(ReturnedAnalysis.recommendations) = 2
    /\ ReturnedItems[3].action = ReturnedAnalysis.recommendations[2]
    /\ ReturnedItems[4].action = Placeholder("Review required")

\* C13 (SpecFusion): the action of a register item is the row's mitigation
\* when the row has one, and "No mitigation documented" when the register
\* has no mitigation column or the row's mitigation cell is empty.
C13_MitigationOrPlaceholder ==
    run.pc = "returned" =>
        \A n \in 1..Cardinality(HighRows) :
            LET row == parsed.df.rows[NthHighRow(n)]
            IN  ReturnedItems[n].action =
                    IF "mitigation" \in DOMAIN row /\ ~isna(row["mitigation"])
                        THEN row["mitigation"]
                        ELSE Placeholder("No mitigation documented")

\* the client has parsed the reply it holds
ReplyParsed == cl.parses = 1 /\ cl.pc \in {"except", "done"}
ClientErrors == {"GeminiClientError", "ClaudeClientError"}

\* C14 (SpecResponse): a reply whose document lacks one of the five required
\* fields, or whose confidence_score float() refuses, ends in the client's
\* error; and an analysis is only built from a document with all five
\* fields, each taken from it.
C14_MissingFieldIsError ==
    ReplyParsed =>
        /\ (required_fields \ cl.reply.doc.fields # {}
                \/ ~cl.reply.doc.confidence_score.coercible) =>
              (cl.result.kind = "raised" /\ cl.result.error \in ClientErrors)
        /\ cl.result.kind = "analysis" =>
              /\ required_fields \subseteq cl.reply.doc.fields
              /\ cl.result.analysis.ai_risks = cl.reply.doc.ai_risks
              /\ cl.result.analysis.iso_domains = cl.reply.doc.iso_domains
              /\ cl.result.analysis.governance_gaps = cl.reply.doc.governance_gaps
              /\ cl.result.analysis.recommendations = cl.reply.doc.recommendations
              /\ cl.result.analysis.confidence_score = cl.reply.doc.confidence_score.v

\* a reply that lacks only governance_gaps, refused
C14_Witness ==
    /\ ReplyParsed /\ cl.pc = "done"
    /\ cl.reply.doc.json /\ cl.reply.text = <<"P">>
    /\ cl.reply.doc.fields = required_fields \ {"governance_gaps"}
    /\ cl.reply.doc.confidence_score.coercible
    /\ cl.result.kind = "raised"

\* C15 (SpecResponse): a valid document inside a fenced block, whatever the
\* tag on the opening fence, parses to what the document alone parses to.
C15_FenceRoundTrip ==
    (ReplyParsed /\ cl.reply.doc \in ValidDocuments
        /\ \E tag \in FenceTags : cl.reply.text = Fenced(tag, <<"P">>)) =>
        \E e \in ClientErrors :
            /\ cl.pc = "done" => cl.result = parse_response([cl.reply EXCEPT !.text = <<"P">>], e)
            /\ cl.pc = "except" =>
                  parse_response(cl.reply, e) = parse_response([cl.reply EXCEPT !.text = <<"P">>], e)

\* the calls so far were made in immediate succession: each earlier call
\* returned at the very time the last one was made
InBurst ==
    /\ lim.calls \in 1..(max_requests + 1) /\ Len(lim.done) = lim.calls
    /\ \A j \in 1..(lim.calls - 1) : lim.done[j] = lim.done[lim.calls] - lim.slept

\* C16 (SpecLimiter): of max_requests + 1 calls in immediate succession on a
\* full bucket, the first max_requests do not sleep and the last sleeps at
\* least time_window / max_requests.
C16_BurstThenBlock ==
    InBurst =>
        IF lim.calls <= max_requests
            THEN lim.slept = 0
            ELSE lim.slept * max_requests >= time_window

C16_Witness ==
    /\ InBurst /\ lim.calls = max_requests + 1
    /\ lim.slept = Seconds(SecondsPerToken)
    /\ now = lim.done[1] + Seconds(SecondsPerToken)

ReturnedStatistics == run.assessment.summary_statistics
\* the means a register of n rows can have, as fractions
MeansOf(n) == {[num |-> t, den |-> n] : t \in n..(25 * n)}
NotBelow(x, y) == x.num * y.den >= y.num * x.den

\* C17 (SpecFusion): the reported overall_risk_score of a register with rows
\* is not above the one any higher average gives at the same confidence, nor
\* above the one any lower confidence gives at the same average.
C17_Monotone ==
    (run.pc = "returned" /\ Len(parsed.df.rows) > 0) =>
        LET avg      == mean(parsed.df, "risk_score")
            c        == ReturnedAnalysis.confidence_score
            reported == ReturnedStatistics.overall_risk_score
        IN  /\ ~reported.nan
            /\ \A other \in MeansOf(1) \cup MeansOf(3) :
                  NotBelow(other, avg) => overall_risk_score(other, c).v >= reported.v
            /\ \A lower \in 0..c :
                  overall_risk_score(avg, lower).v >= reported.v

\* rows scoring 20 and 4 at confidence 0.8 report 3.68; confidence 0 gives more
C17_Witness ==
    /\ run.pc = "returned" /\ Len(parsed.df.rows) = 2
    /\ mean(parsed.df, "risk_score") = [num |-> 24, den |-> 2]
    /\ ReturnedAnalysis.confidence_score = 80
    /\ ReturnedStatistics.overall_risk_score = Value(368)
    /\ overall_risk_score(mean(parsed.df, "risk_score"), 0).v > 368

ScoreSum == SumSeq([k \in 1..Len(parsed.df.rows) |-> parsed.df.rows[k]["risk_score"].v])
\* ((avg/25 * 0.6) + ((1 - confidence) * 0.4)) * 10 in hundredths, times the
\* number of rows, for avg = ScoreSum / rows and the confidence in hundredths
FormulaTimesRows ==
    24 * ScoreSum + 4 * (100 - ReturnedAnalysis.confidence_score) * Len(parsed.df.rows)

CountsMatch ==
    /\ ReturnedStatistics.total_organizational_risks = Len(parsed.df.rows)
    /\ ReturnedStatistics.total_ai_risks = Len(ReturnedAnalysis.ai_risks)
    /\ ReturnedStatistics.total_governance_gaps = Len(ReturnedAnalysis.governance_gaps)
    /\ ReturnedStatistics.iso_domains_affected = Len(ReturnedAnalysis.iso_domains)
    /\ ReturnedStatistics.high_risk_items = Cardinality(HighRows)

\* C18 as stated (SpecFusion): the reported overall_risk_score is the value
\* of the formula itself, and the counts are those of the register and of
\* the analysis.
C18_ExactFormula ==
    (run.pc = "returned" /\ Len(parsed.df.rows) > 0) =>
        /\ ReturnedStatistics.overall_risk_score.v * Len(parsed.df.rows) = FormulaTimesRows
        /\ CountsMatch

\* C18, amended (SpecFusion): the reported overall_risk_score is the value of
\* the formula rounded to two decimals, that is within half a hundredth of
\* it, and the counts are those of the register and of the analysis.
C18_FormulaRounded ==
    (run.pc = "returned" /\ Len(parsed.df.rows) > 0) =>
        LET diff == ReturnedStatistics.overall_risk_score.v * Len(parsed.df.rows)
                        - FormulaTimesRows
        IN  /\ ~ReturnedStatistics.overall_risk_score.nan
            /\ 2 * diff <= Len(parsed.df.rows)
            /\ 2 * diff >= 0 - Len(parsed.df.rows)
            /\ CountsMatch

\* five rows scoring 20, 4, 4, 4, 4 at confidence 0.8: the formula gives
\* 2.528 and 2.53 is reported
C18_Witness ==
    /\ run.pc = "returned" /\ Len(parsed.df.rows) = 5
    /\ ScoreSum = 36 /\ ReturnedAnalysis.confidence_score = 80
    /\ ReturnedStatistics.overall_risk_score = Value(253)
    /\ ReturnedStatistics.high_risk_items = 1

\* C19 (SpecRerun): when two calls of analyse on the same register both
\* return and the backend returned the same analysis in both, the second
\* call's summary_statistics and high_priority_items, in their order, are
\* those of the first, whatever attempts, waits and backoffs each call made.
C19_Deterministic ==
    (run.pc = "returned" /\ run.first.done
        /\ cl.result.analysis = run.first.analysis) =>
        /\ ReturnedStatistics = run.first.assessment.summary_statistics
        /\ ReturnedItems = run.first.assessment.high_priority_items

\* the first call returned at its first attempt, the second at its third,
\* after two failures and their backoffs, with the same analysis and items
C19_Witness ==
    /\ run.pc = "returned" /\ run.first.done /\ run.provider = "gemini"
    /\ run.first.attempt = 0
    /\ cl.attempt = 2 /\ cl.backoffs = <<1, 2>>
    /\ cl.result.analysis = run.first.analysis
    /\ Len(ReturnedItems) = 4

\* C20 (Spec): with the Gemini or the Claude backend, analyse fails on the
\* analysis only after the backend made max_retries generation calls.
C20_RetriedBeforeError ==
    (run.raised_by = "analyse" /\ run.error.stage = "analysis"
        /\ run.provider \in {"gemini", "claude"}) =>
        cl.api_calls = cl.max_retries

\* C21 (SpecClient): the k-th backoff of a call (k from 0) is 2^k seconds,
\* slept after the failure of attempt k while attempts remain; the failure
\* of the last attempt is followed by no sleep and by GeminiClientError with
\* the last failure's text, so that a call which exhausts N attempts slept
\* N - 1 times, 2^(N-1) - 1 seconds in all.
C21_ExponentialBackoff ==
    /\ [](/\ cl.backoffs = [k \in 1..cl.attempt |-> 2 ^ (k - 1)]
          /\ (cl.pc = "done" /\ cl.result.kind = "raised" /\ cl.max_retries >= 1) =>
                /\ Len(cl.backoffs) = cl.max_retries - 1
                /\ SumSeq(cl.backoffs) = 2 ^ (cl.max_retries - 1) - 1
                /\ cl.result.error = "GeminiClientError")
    /\ [][cl.pc = "except" =>
            IF cl.attempt + 1 < cl.max_retries
                THEN /\ now' = now + Seconds(2 ^ cl.attempt)
                     /\ cl'.attempt = cl.attempt + 1 /\ cl'.pc = "for"
                ELSE /\ now' = now
                     /\ cl'.pc = "done"
                     /\ cl'.result = Raised("GeminiClientError", cl.result.msg)]_vars

\* three attempts exhausted: backoffs of 1 s and 2 s, then the error
C21_Witness ==
    /\ cl.pc = "done" /\ cl.result.kind = "raised" /\ cl.max_retries = 3
    /\ cl.backoffs = <<1, 2>> /\ now >= Seconds(3)
    /\ cl.result.msg = "Failed to parse JSON response"

\* C22 (SpecClient): a generation call is made only right after the acquire
\* of its own attempt, which took a token from the bucket; and a reply is
\* parsed only after the generation call of its attempt returned it.
C22_AcquireThenCallThenParse ==
    /\ [](/\ lim.calls = cl.acquires
          /\ cl.acquires = cl.api_calls + (IF cl.pc = "call" THEN 1 ELSE 0)
          /\ cl.parses <= cl.api_calls)
    /\ [][(cl'.api_calls # cl.api_calls =>
                /\ cl.pc = "call"
                /\ cl'.api_calls = cl.api_calls + 1
                /\ cl.acquires = cl.attempt + 1
                /\ lim.calls = cl.attempt + 1
                /\ tokens = TokensAfter(lim.refilled))
           /\
           (cl'.parses # cl.parses =>
                /\ cl.pc = "parse"
                /\ cl.api_calls = cl.attempt + 1
                /\ cl.reply # NoReply)]_vars

\* the generation call of the second attempt is about to be made
C22_Witness ==
    /\ cl.pc = "call" /\ cl.attempt = 1
    /\ cl.acquires = 2 /\ cl.api_calls = 1 /\ lim.calls = 2

\* C23 (SpecLimiter): an acquire() that finds, after the refill
\* min(capacity, tokens + elapsed / window * capacity), less than one token
\* sleeps exactly (1 - tokens) * window / capacity and leaves no token; one
\* that finds a token or more does not sleep and leaves one token less.
\* Tokens are counted in units of 1 / TokenUnit.
C23_AcquireArithmetic ==
    [][lim'.calls # lim.calls =>
        LET cap   == max_requests * TokenUnit
            grown == tokens * time_window + (now - last_refill) * cap
            r     == IF grown <= cap * time_window THEN grown ELSE cap * time_window
            one   == TokenUnit * time_window
        IN  \* r is the refilled bucket times time_window, one a token times it
            IF r < one
                THEN /\ (now' - now) * cap * time_window = (one - r) * time_window
                     /\ tokens' = 0
                ELSE /\ now' = now
                     /\ tokens' * time_window = r - one]_vars

\* a call that found half a token slept one second and left the bucket empty
C23_Witness ==
    /\ lim.calls > max_requests
    /\ 2 * lim.refilled = TokenUnit
    /\ 2 * lim.slept = Seconds(SecondsPerToken)
    /\ tokens = 0

\* when the i-th recorded acquire() was made
CallStart(i) == lim.done[i] - lim.sleeps[i]
\* calls j..k were made in immediate succession, at one instant
SameInstant(j, k) == \A i \in j..k : CallStart(i) = CallStart(j)

\* C24 (SpecLimiter): the calls made in immediate succession time_window or
\* more after the last acquire() returned do not sleep as long as they are
\* max_requests or fewer; and calls made at one instant that did not sleep
\* are never more than max_requests.
C24_BurstAfterIdle ==
    LET k == Len(lim.done)
    IN  \A j \in 1..k :
            /\ (/\ j > 1
                /\ CallStart(j) - lim.done[j - 1] >= time_window
                /\ SameInstant(j, k)
                /\ k - j + 1 <= max_requests) =>
                    \A i \in j..k : lim.sleeps[i] = 0
            /\ (SameInstant(j, k) /\ \A i \in j..k : lim.sleeps[i] = 0) =>
                    k - j + 1 <= max_requests

\* after a call and an idle time_window: max_requests calls that did not
\* sleep and one more, at the same instant, that did
C24_Witness ==
    /\ Len(lim.done) = max_requests + 2
    /\ CallStart(2) - lim.done[1] = time_window
    /\ SameInstant(2, max_requests + 2)
    /\ \A i \in 2..(max_requests + 1) : lim.sleeps[i] = 0
    /\ lim.sleeps[max_requests + 2] = Seconds(SecondsPerToken)

\* C25 (Spec): analyse parses the register once: the parse step is entered
\* only from the start of the run and is left at once, and the parser's
\* result never changes afterwards; a register the parser refused ends the
\* run with the wrapped CSVParserError, no time slept and no backend touched.
C25_ParsedOnceNeverRetried ==
    /\ []((ppc # "start" /\ ~parsed.ok) =>
            /\ run.pc \in {"raised", "exit"}
            /\ run.error = RiskanalyserError("register", "CSVParserError")
            /\ now = 0 /\ cl = IdleClient /\ lim = NoCalls)
    /\ [][(run'.pc = "parse" => run.pc \in {"cli_start", "parse"})
           /\
           (run.pc = "parse" => (run'.pc # "parse" /\ ppc = "start" /\ ppc' # "start"))
           /\
           (run.pc # "parse" => (parsed' = parsed /\ ppc' = ppc))]_vars

\* an unreadable register: refused, and the run ended in the CLI's handler
C25_Witness ==
    /\ run.pc = "exit" /\ file = UnreadableFile
    /\ ppc = "parsed" /\ ~parsed.ok
    /\ run.handler = "Analysis Error" /\ now = 0

\* C26 (SpecClient): for every max_retries, 0 included, analyze_use_case ends
\* by returning an analysis with its five fields or by raising
\* GeminiClientError, and in no other way.
C26_AnalysisOrError ==
    cl.pc = "done" =>
        \/ /\ cl.result.kind = "analysis"
           /\ required_fields \subseteq cl.reply.doc.fields
           /\ ~cl.result.analysis.ai_risks_null
        \/ /\ cl.result.kind = "raised"
           /\ cl.result.error = "GeminiClientError"

\* C27 (SpecFusion): the overall_risk_score of a returned assessment is a
\* number within [0, 10] (0..1000 hundredths).
C27_OverallScoreDefined ==
    run.pc = "returned" =>
        /\ ~ReturnedStatistics.overall_risk_score.nan
        /\ ReturnedStatistics.overall_risk_score.v \in 0..1000

\* C28 (SpecClient): the step that parses a reply into an analysis ends the
\* call, taking no time and no token, and nothing of the client or of the
\* limiter changes once the analysis is there; when the call has ended, the
\* generation calls made are as many as the acquires completed and at most
\* max_retries, and those of a successful call one more than its backoffs.
C28_ReturnsAtOnce ==
    /\ [](cl.pc = "done" =>
            /\ cl.api_calls = cl.acquires /\ lim.calls = cl.acquires
            /\ cl.api_calls <= cl.max_retries
            /\ cl.result.kind = "analysis" =>
                  (cl.api_calls = Len(cl.backoffs) + 1 /\ cl.api_calls = cl.attempt + 1))
    /\ [][((cl'.result.kind = "analysis" /\ cl.result.kind # "analysis") =>
                /\ cl.pc = "parse" /\ cl'.pc = "done"
                /\ now' = now /\ tokens' = tokens /\ lim' = lim
                /\ cl'.api_calls = cl.api_calls /\ cl'.backoffs = cl.backoffs)
           /\
           (cl.result.kind = "analysis" => (cl' = cl /\ UNCHANGED limiterVars))]_vars

\* the second attempt succeeded: two acquires, two calls, one backoff
C28_Witness ==
    /\ cl.pc = "done" /\ cl.result.kind = "analysis" /\ cl.max_retries = 3
    /\ cl.attempt = 1 /\ cl.acquires = 2 /\ cl.api_calls = 2
    /\ cl.backoffs = <<1>>

\* C29 (SpecLimiter): the bucket holds between 0 and max_requests tokens
\* after construction and after every acquire(), and so does the bucket
\* each call saw after its refill.
C29_TokensInRange ==
    /\ tokens \in 0..(max_requests * TokenUnit)
    /\ lim.refilled \in 0..(max_requests * TokenUnit)

\* a second call after idling longer than the refill needs: the refill
\* stopped at max_requests
C29_Witness ==
    /\ lim.calls = 2 /\ lim.done[1] = 0 /\ now > Seconds(SecondsPerToken)
    /\ lim.refilled = max_requests * TokenUnit
    /\ tokens = (max_requests - 1) * TokenUnit

\* the items of the returned assessment that come from the register
RegisterSourced ==
    {n \in 1..Len(ReturnedItems) : ReturnedItems[n].source = "organizational_risk_register"}

\* C30 (SpecFusion): in a returned assessment high_risk_items is the number
\* of items that come from the register, which is the number of register
\* rows with likelihood * impact >= 15; each of those items has a score of
\* 15 or more; and an item has no score exactly when it does not come from
\* the register.
C30_DerivedPartsAgree ==
    run.pc = "returned" =>
        /\ ReturnedStatistics.high_risk_items = Cardinality(RegisterSourced)
        /\ Cardinality(RegisterSourced) =
              Cardinality({k \in 1..Len(file.rows) :
                             file.rows[k]["likelihood"].v * file.rows[k]["impact"].v >= 15})
        /\ \A n \in RegisterSourced : ReturnedItems[n].risk_score.v >= 15
        /\ \A n \in 1..Len(ReturnedItems) :
              ReturnedItems[n].risk_score.nan <=> n \notin RegisterSourced

\* rows scoring 12 and 15: one register item, scoring 15, before the others
C30_Witness ==
    /\ run.pc = "returned" /\ Len(parsed.df.rows) = 2
    /\ parsed.df.rows[1]["risk_score"].v = 12
    /\ parsed.df.rows[2]["risk_score"].v = 15
    /\ ReturnedStatistics.high_risk_items = 1
    /\ RegisterSourced = {1}
    /\ ReturnedItems[1].risk_score = Value(15)
    /\ Len(ReturnedItems) > 1

====
